---- MODULE Spec2Model ----
(***************************************************************************)
(* The interview flow of InterviewAssistant.tsx and the challenge flow of   *)
(* CodeEditor (the variant with test cases and stopwatch) as state         *)
(* machines.                                                               *)
(*                                                                         *)
(* Each component is a React function component: its state is the set of    *)
(* useState cells, and every handler is a closure over the values those    *)
(* cells had in the render in which the handler was invoked.  An async     *)
(* handler runs atomically up to its next await of an external call        *)
(* (FileReader, pdf.js, the text-generation oracle); the rest of it is a   *)
(* continuation in flight that still reads the values captured at invoke   *)
(* time.  Continuations in flight are kept in the bag tasks, with the      *)
(* captured values they go on to read.                                    *)
(*                                                                         *)
(* Text is a sequence of one-character strings, so that trim, split,       *)
(* toLowerCase and includes are computed as the code computes them.        *)
(***************************************************************************)
EXTENDS Integers, Sequences, FiniteSets, Bags, TLC

VARIABLES
    resumeText,            \* useState<string>("")
    skills,                \* useState<string[]>([])
    currentQuestionIndex,  \* useState(0)
    currentQuestion,       \* useState("")
    answer,                \* useState("")
    history,               \* useState<ChatHistoryEntry[]>([])
    interviewing,          \* useState(false)
    isResumeValid,         \* useState<boolean | null>(null): "null" | "true" | "false"
    isProcessing,          \* useState(false)
    totalScore,            \* useState(0)
    questions,             \* useState<string[]>([])
    interviewCompleted,    \* useState(false)
    resultAnalysis,        \* useState<ResultAnalysis | null>(null)
    selectedMcqOption,     \* useState<number | null>(null); 0 stands for null
    code,                  \* CodeEditor: useState<string>("")
    question,              \* useState<string>("Loading question...")
    analysis,              \* useState<AnalysisResult>({...})
    loading,               \* useState<boolean>(false)
    language,              \* useState<string>("java")
    questionLoading,       \* useState<boolean>(true)
    showCorrectedCode,     \* useState<boolean>(false)
    difficulty,            \* useState<string>("medium")
    topic,                 \* useState<string>("array")
    testCases,             \* useState<TestCase[]>([])
    testResults,           \* useState<TestCase[]>([])
    runningTests,          \* useState<boolean>(false)
    activeTab,             \* useState<"testcases" | "results">("testcases")
    time,                  \* useState<number>(0), in seconds
    isRunning,             \* useState<boolean>(false)
    tasks,                 \* bag of async continuations in flight
    last                   \* the handler step taken last, with the oracle response it consumed

vars == <<resumeText, skills, currentQuestionIndex, currentQuestion, answer,
          history, interviewing, isResumeValid, isProcessing, totalScore,
          questions, interviewCompleted, resultAnalysis, selectedMcqOption,
          code, question, analysis, loading, language, questionLoading,
          showCorrectedCode, difficulty, topic, testCases, testResults,
          runningTests, activeTab, time, isRunning,
          tasks, last>>

resumeVars == <<resumeText, skills, isResumeValid, isProcessing>>

sessionVars == <<currentQuestionIndex, currentQuestion, answer, history,
                 interviewing, totalScore, questions, interviewCompleted,
                 resultAnalysis, selectedMcqOption>>

\* the state of CodeEditor
challengeVars == <<code, question, analysis, loading, language, questionLoading,
                   showCorrectedCode, difficulty, topic, testCases, testResults,
                   runningTests, activeTab, time, isRunning>>

settingVars == <<language, difficulty, topic>>

stopwatchVars == <<time, isRunning>>

----------------------------------------------------------------------------
(* Bounds of the model.                                                    *)

\* continuations in flight at one time (the code sets no limit)
MaxInFlight == 2

\* records in history (overlapping submissions can add records without end)
MaxHistory == 2

\* The stopwatch is followed up to MaxTime seconds.
MaxTime == 2

----------------------------------------------------------------------------
(* Text: sequences of one-character strings.                               *)

Str0 == <<>>

UpperCase == <<"A","B","C","D","E","F","G","H","I","J","K","L","M",
               "N","O","P","Q","R","S","T","U","V","W","X","Y","Z">>

LowerCase == <<"a","b","c","d","e","f","g","h","i","j","k","l","m",
               "n","o","p","q","r","s","t","u","v","w","x","y","z">>

\* String.prototype.toLowerCase on one character
LowerChar(c) ==
    IF \E i \in 1..Len(UpperCase) : UpperCase[i] = c
    THEN LowerCase[CHOOSE i \in 1..Len(UpperCase) : UpperCase[i] = c]
    ELSE c

\* String.prototype.toLowerCase
ToLowerCase(s) == [i \in 1..Len(s) |-> LowerChar(s[i])]

\* white space as String.prototype.trim and the regex class \s see it
IsSpace(c) == c \in {" ", "\n", "\t", "\r"}

RECURSIVE TrimStart(_)
TrimStart(s) ==
    IF s = <<>> THEN <<>>
    ELSE IF IsSpace(Head(s)) THEN TrimStart(Tail(s)) ELSE s

RECURSIVE TrimEnd(_)
TrimEnd(s) ==
    IF s = <<>> THEN <<>>
    ELSE IF IsSpace(s[Len(s)]) THEN TrimEnd(SubSeq(s, 1, Len(s) - 1)) ELSE s

\* String.prototype.trim
Trim(s) == TrimEnd(TrimStart(s))

\* s has p at position i (1-based)
HasAt(s, p, i) ==
    /\ i + Len(p) - 1 <= Len(s)
    /\ \A k \in 1..Len(p) : s[i + k - 1] = p[k]

\* String.prototype.includes
Includes(s, p) == \E i \in 1..(Len(s) + 1) : HasAt(s, p, i)

\* String.prototype.split on a one-character separator: the segments between
\* the separators, one more than there are separators ("" gives [""])
RECURSIVE SplitFrom(_, _, _)
SplitFrom(s, sep, cur) ==
    IF s = <<>> THEN <<cur>>
    ELSE IF Head(s) = sep THEN <<cur>> \o SplitFrom(Tail(s), sep, <<>>)
    ELSE SplitFrom(Tail(s), sep, Append(cur, Head(s)))

Split(s, sep) == SplitFrom(s, sep, <<>>)

\* Array.prototype.map / filter / slice(0, n)
MapTrim(xs) == [i \in 1..Len(xs) |-> Trim(xs[i])]

RECURSIVE FilterNonBlank(_)
FilterNonBlank(xs) ==
    IF xs = <<>> THEN <<>>
    ELSE IF Len(Trim(Head(xs))) > 0
         THEN <<Head(xs)>> \o FilterNonBlank(Tail(xs))
         ELSE FilterNonBlank(Tail(xs))

Slice0(xs, n) == SubSeq(xs, 1, IF Len(xs) < n THEN Len(xs) ELSE n)

----------------------------------------------------------------------------
(* Responses of an external call: groq.chat.completions.create resolves    *)
(* with a completion whose choices[0]?.message?.content is a string or is  *)
(* missing, or it rejects.                                                 *)

Content(s) == [status |-> "content", content |-> s]
NoContent  == [status |-> "nocontent", content |-> <<>>]
Rejected   == [status |-> "rejected", content |-> <<>>]

HasContent(r) == r.status = "content"

NoResponse == [status |-> "none", content |-> <<>>]

\* what the step taken last was: the handler, the point it ran from and the
\* response it consumed
Last(op, pc, r) == [op |-> op, pc |-> pc, response |-> r]

InFlight == BagCardinality(tasks)

Spawn(t) == tasks (+) SetToBag({t})
Finish(t) == tasks (-) SetToBag({t})
Become(t, u) == (tasks (-) SetToBag({t})) (+) SetToBag({u})

TasksAt(op, pc) == {t \in BagToSet(tasks) : t.op = op /\ t.pc = pc}

----------------------------------------------------------------------------
(* Inputs drawn by the environment.                                        *)

(* Each specification draws them from its own sets: Spec, which follows    *)
(* the interview session, from the small ones; SpecUpload, which follows   *)
(* the upload of resumes, from the wide ones.                              *)

\* text that pdf.js extracts from an uploaded document
Texts == { <<"r">> }

\* line 74: the characters of the text that the verification request carries
VerifyTextSent == 1000

LongText == [i \in 1..(VerifyTextSent + 1) |-> "x"]

WideTexts == { <<"r">>, <<"s">>, LongText }

\* line 74: extractedText.substring(0, 1000)
verificationText(text) == Slice0(text, VerifyTextSent)

\* replies of the oracle to "Is this text a resume?"
VerifyReplies == { Content(<<"Y","e","s",".">>), Content(<<"n","o">>) }

WideVerifyReplies ==
    VerifyReplies \cup
    { Content(<<"y","e","s">>), Content(<<"e","y","e","S">>),
      Content(<<"y","e"," ","s">>), Content(<<>>), NoContent }

\* replies of the oracle to "Extract key technical skills"
SkillReplies == { Content(<<"a",","," ","b",","," ","c">>), NoContent }

WideSkillReplies ==
    SkillReplies \cup
    { Content(<<>>), Content(<<" ","a"," ",",","b"," ","c">>),
      Content(<<"a",",",",","b">>), Content(<<",">>) }

----------------------------------------------------------------------------
(* handleFileUpload, lines 46-96, and extractSkills, lines 98-112.         *)
(* What the code computes from a response is tabulated over the replies    *)
(* the environment draws from, so that it is computed once.                *)

\* line 80: content?.toLowerCase().includes("yes") ?? false
isResume(r) ==
    IF HasContent(r) THEN Includes(ToLowerCase(r.content), <<"y","e","s">>)
    ELSE FALSE

\* lines 109-110: content?.split(",").map((s) => s.trim()) || []
\* (an array, empty or not, is truthy: || [] only replaces a missing content)
extractedSkills(r) ==
    IF HasContent(r) THEN MapTrim(Split(r.content, ",")) ELSE <<>>

verified == [r \in WideVerifyReplies |-> isResume(r)]

skillsFrom == [r \in WideSkillReplies |-> extractedSkills(r)]

\* lines 46-54: a file was chosen; the input is rendered unless the results
\* view is shown (line 438)
HandleFileUpload ==
    /\ ~interviewCompleted
    /\ isProcessing' = TRUE
    /\ isResumeValid' = "null"
    /\ tasks' = Spawn([op |-> "handleFileUpload", pc |-> "read"])
    /\ last' = Last("handleFileUpload", "start", NoResponse)
    /\ UNCHANGED <<resumeText, skills>>
    /\ UNCHANGED sessionVars
    /\ UNCHANGED challengeVars

\* lines 47-48: the change event carries no file
HandleFileUploadNoFile ==
    /\ ~interviewCompleted
    /\ last' = Last("handleFileUpload", "nofile", NoResponse)
    /\ UNCHANGED <<resumeVars, sessionVars, tasks>>
    /\ UNCHANGED challengeVars

\* lines 89-94: catch and finally of reader.onload
UploadFailed(t, pc, r) ==
    /\ isResumeValid' = "false"
    /\ isProcessing' = FALSE
    /\ tasks' = Finish(t)
    /\ last' = Last("handleFileUpload", pc, r)
    /\ UNCHANGED <<resumeText, skills>>

\* lines 56-78: reader.onload; pdf.js yields the text and the verification
\* call is issued, or pdf.js throws
ReaderOnLoad(texts) ==
    \E t \in TasksAt("handleFileUpload", "read") :
        /\ \/ \E text \in texts :
                /\ tasks' = Become(t, [op |-> "handleFileUpload", pc |-> "verify",
                                       extractedText |-> text,
                                       sent |-> verificationText(text)])
                /\ last' = Last("handleFileUpload", "read", NoResponse)
                /\ UNCHANGED resumeVars
           \/ UploadFailed(t, "read", Rejected)
        /\ UNCHANGED sessionVars
        /\ UNCHANGED challengeVars

\* the FileReader fails: no onerror handler is installed, onload never runs
ReaderError ==
    \E t \in TasksAt("handleFileUpload", "read") :
        /\ tasks' = Finish(t)
        /\ last' = Last("handleFileUpload", "readerror", NoResponse)
        /\ UNCHANGED <<resumeVars, sessionVars>>
        /\ UNCHANGED challengeVars

\* lines 80-88: the verification call has returned
VerifyReturned(t, r) ==
    IF verified[r]
    THEN /\ resumeText' = t.extractedText
         /\ tasks' = Become(t, [op |-> "handleFileUpload", pc |-> "extractSkills",
                                extractedText |-> t.extractedText,
                                isResume |-> TRUE])
         /\ last' = Last("handleFileUpload", "verify", r)
         /\ UNCHANGED <<skills, isResumeValid, isProcessing>>
    ELSE /\ isResumeValid' = "false"
         /\ isProcessing' = FALSE
         /\ tasks' = Finish(t)
         /\ last' = Last("handleFileUpload", "verify", r)
         /\ UNCHANGED <<resumeText, skills>>

VerifyReply(replies) ==
    \E t \in TasksAt("handleFileUpload", "verify") :
        /\ \/ \E r \in replies : VerifyReturned(t, r)
           \/ UploadFailed(t, "verify", Rejected)
        /\ UNCHANGED sessionVars
        /\ UNCHANGED challengeVars

\* lines 109-111 and 85, 93: the skill-extraction call has returned
ExtractSkillsReturned(t, r) ==
    /\ skills' = skillsFrom[r]
    /\ isResumeValid' = "true"
    /\ isProcessing' = FALSE
    /\ tasks' = Finish(t)
    /\ last' = Last("handleFileUpload", "extractSkills", r)
    /\ UNCHANGED resumeText

ExtractSkillsReply(replies) ==
    \E t \in TasksAt("handleFileUpload", "extractSkills") :
        /\ \/ \E r \in replies : ExtractSkillsReturned(t, r)
           \/ UploadFailed(t, "extractSkills", Rejected)
        /\ UNCHANGED sessionVars
        /\ UNCHANGED challengeVars

----------------------------------------------------------------------------
(* generateQuestions, lines 114-133.                                       *)

Digits == {"0","1","2","3","4","5","6","7","8","9"}

\* length of the run of digits s has from position i on
RECURSIVE DigitRun(_, _)
DigitRun(s, i) ==
    IF i <= Len(s) /\ s[i] \in Digits THEN 1 + DigitRun(s, i + 1) ELSE 0

\* line 129: q.replace(/^\d+\.\s*/, '')
StripNumber(q) ==
    LET n == DigitRun(q, 1) IN
    IF n >= 1 /\ n + 1 <= Len(q) /\ q[n + 1] = "."
    THEN TrimStart(SubSeq(q, n + 2, Len(q)))
    ELSE q

MapStripTrim(xs) == [i \in 1..Len(xs) |-> Trim(StripNumber(xs[i]))]

\* line 131: slice(0, 10)
QuestionsKept == 10

\* lines 126-129 without the slice(0, 10) of line 131: every line is kept
generatedQuestionsUncut(r) ==
    IF HasContent(r)
    THEN MapStripTrim(FilterNonBlank(Split(r.content, "\n")))
    ELSE <<>>

\* lines 126-131: the questions read from a response
generatedQuestions(r) ==
    IF HasContent(r)
    THEN Slice0(MapStripTrim(FilterNonBlank(Split(r.content, "\n"))), QuestionsKept)
    ELSE <<>>

\* replies of the oracle to "Generate exactly 10 technical interview questions"
QuestionReplies == { Content(<<"1","."," ","p","\n","2","."," ","q">>), NoContent }

WideQuestionReplies ==
    QuestionReplies \cup { Content(<<"u","\n"," ","\n">>) }

\* eleven numbered lines with a blank line among them; twelve lines without
\* numbers; a number without a space after it and a number alone
ElevenNumberedLines ==
    Content(<<"1","."," ","a","\n","2","."," ","b","\n","3","."," ","c",
              "\n","4","."," ","d","\n","\n","5","."," ","e","\n","6",
              "."," ","f","\n","7","."," ","g","\n","8","."," ","h",
              "\n","9","."," ","i","\n","1","0","."," ","j","\n","1",
              "1","."," ","k">>)

TwelvePlainLines ==
    Content(<<"l","\n","m","\n","n","\n","o","\n","p","\n","q","\n","r",
              "\n","s","\n","t","\n","u","\n","v","\n","w">>)

FullQuestionReplies ==
    WideQuestionReplies \cup
    { ElevenNumberedLines, TwelvePlainLines,
      Content(<<"3",".","x","\n","1","2",".","\n"," ","y"," ">>) }

questionsFrom == [r \in FullQuestionReplies |-> generatedQuestions(r)]

----------------------------------------------------------------------------
(* The scoring reply, lines 174-177.                                       *)

NoFeedbackAvailable ==
    <<"N","o"," ","f","e","e","d","b","a","c","k"," ",
      "a","v","a","i","l","a","b","l","e",".">>

\* line 174: content || "No feedback available." (an empty string is falsy)
feedbackText(r) ==
    IF HasContent(r) /\ r.content # <<>> THEN r.content ELSE NoFeedbackAvailable

ScorePrefix == <<"s","c","o","r","e",":"," ">>

\* /Score: (\d+)\/10/i matches s at position i
ScoreMatchAt(s, i) ==
    LET d == i + Len(ScorePrefix)
        n == DigitRun(s, d) IN
    /\ HasAt(ToLowerCase(s), ScorePrefix, i)
    /\ n >= 1
    /\ HasAt(s, <<"/","1","0">>, d + n)

\* position of the leftmost match, 0 when there is none
ScoreMatch(s) ==
    IF \E i \in 1..Len(s) : ScoreMatchAt(s, i)
    THEN CHOOSE i \in 1..Len(s) :
            /\ ScoreMatchAt(s, i)
            /\ \A j \in 1..(i - 1) : ~ScoreMatchAt(s, j)
    ELSE 0

DigitValue(c) ==
    CASE c = "0" -> 0 [] c = "1" -> 1 [] c = "2" -> 2 [] c = "3" -> 3
      [] c = "4" -> 4 [] c = "5" -> 5 [] c = "6" -> 6 [] c = "7" -> 7
      [] c = "8" -> 8 [] c = "9" -> 9

\* parseInt of a run of digits
RECURSIVE ParseInt(_)
ParseInt(ds) ==
    IF ds = <<>> THEN 0
    ELSE 10 * ParseInt(SubSeq(ds, 1, Len(ds) - 1)) + DigitValue(ds[Len(ds)])

DefaultScore == 5

\* lines 175-176: scoreMatch ? parseInt(scoreMatch[1]) : 5
scoreOf(text) ==
    LET i == ScoreMatch(text) IN
    IF i = 0 THEN DefaultScore
    ELSE LET d == i + Len(ScorePrefix) IN
         ParseInt(SubSeq(text, d, d + DigitRun(text, d) - 1))

\* length of the run of white space s has from position i on
RECURSIVE SpaceRun(_, _)
SpaceRun(s, i) ==
    IF i <= Len(s) /\ IsSpace(s[i]) THEN 1 + SpaceRun(s, i + 1) ELSE 0

\* line 177: feedbackText.replace(/Score: \d+\/10\.?\s*/i, '').trim()
feedbackOf(text) ==
    LET i == ScoreMatch(text) IN
    IF i = 0 THEN Trim(text)
    ELSE LET d   == i + Len(ScorePrefix)
             e   == d + DigitRun(text, d) + 3
             dot == IF e <= Len(text) /\ text[e] = "." THEN 1 ELSE 0
             f   == e + dot + SpaceRun(text, e + dot) IN
         Trim(SubSeq(text, 1, i - 1) \o SubSeq(text, f, Len(text)))

\* replies of the oracle to "Evaluate this answer"
ScoreReplies ==
    { Content(<<"S","c","o","r","e",":"," ","7","/","1","0","."," ","o","k">>) }

WideScoreReplies ==
    ScoreReplies \cup { Content(<<"s","c","o","r","e",":"," ","1","0","/","1","0">>),
                        NoContent }

GoodJobReply ==
    Content(<<"S","c","o","r","e",":"," ","7","/","1","0","."," ","F",
              "e","e","d","b","a","c","k",":"," ","G","o","o","d"," ",
              "j","o","b",".">>)

FullScoreReplies ==
    WideScoreReplies \cup
    { GoodJobReply,
      Content(<<>>),
      Content(<<" ","f","i","n","e"," ","\n">>),
      Content(<<"S","c","o","r","e",":"," ","0","/","1","0">>),
      Content(<<"S","c","o","r","e",":"," ","1","5","/","1","0","."," ",
                "x">>) }

\* lines 175-177: the score and the feedback read from a response
scored ==
    [r \in FullScoreReplies |->
        [score    |-> scoreOf(feedbackText(r)),
         feedback |-> feedbackOf(feedbackText(r))]]

----------------------------------------------------------------------------
(* analyzeResults, lines 199-277.                                          *)
(*                                                                         *)
(* JSON.parse is the library's: a response with content either parses to   *)
(* a JSON value or makes JSON.parse throw.  A JSON value is tagged with    *)
(* its type; an object is given by the four keys the code reads, a key it  *)
(* does not have being undefined.  The entries of a list are passed        *)
(* through unread, so an entry is an atom (a TLA+ string).                  *)

JUndefined == [t |-> "undefined"]
JNull      == [t |-> "null"]
JStr(s)    == [t |-> "string", v |-> s]
JNum(n)    == [t |-> "number", v |-> n]
JArr(xs)   == [t |-> "array", v |-> xs]
JObj(op, st, we, im) ==
    [t |-> "object",
     v |-> [overallPerformance |-> op, strengths |-> st,
            weaknesses |-> we, improvementSuggestions |-> im]]

Parses(v) == [status |-> "content", parses |-> TRUE, json |-> v]
Malformed == [status |-> "content", parses |-> FALSE, json |-> JUndefined]

\* line 232: content || "{}", and line 236: JSON.parse
parsedAnalysis(r) ==
    IF r.status = "nocontent"
    THEN JObj(JUndefined, JUndefined, JUndefined, JUndefined)
    ELSE r.json

\* parsed.key: undefined on a value that is no object (a string, a number, a list)
Field(parsed, key) ==
    IF parsed.t = "object" THEN parsed.v[key] ELSE JUndefined

NoAnalysis == [null |-> TRUE]

Excellent == <<"e","x","c","e","l","l","e","n","t">>
Good      == <<"g","o","o","d">>
Average   == <<"a","v","e","r","a","g","e">>
NeedsImprovement ==
    <<"n","e","e","d","s"," ","i","m","p","r","o","v","e","m","e","n","t">>

\* line 253
Performances == {Excellent, Good, Average, NeedsImprovement}

\* lines 243-248
defaultAnalysis ==
    [overallPerformance |-> Average,
     strengths |-> <<"No strengths identified", "N/A", "N/A">>,
     weaknesses |-> <<"No weaknesses identified", "N/A", "N/A">>,
     improvementSuggestions |->
        <<"Review your answers", "Practice more", "Study relevant materials">>]

\* lines 270-275: the value stored by the catch
failedAnalysis ==
    [overallPerformance |-> Average,
     strengths |-> <<"Could not analyze", "N/A", "N/A">>,
     weaknesses |-> <<"Could not analyze", "N/A", "N/A">>,
     improvementSuggestions |->
        <<"Review your answers", "Practice more", "Study relevant materials">>]

\* lines 256-264 with the list taken whole: x when it has 3 entries or more
firstThreeUncut(x, default) ==
    IF x.t = "array" /\ Len(x.v) >= 3 THEN x.v ELSE default

\* lines 256-264: Array.isArray(x) && x.length >= 3 ? [x[0], x[1], x[2]] : default
firstThree(x, default) ==
    IF x.t = "array" /\ Len(x.v) >= 3 THEN SubSeq(x.v, 1, 3) ELSE default

\* lines 252-255 without the list of line 253: any string is taken
validatedPerformanceUnlisted(op) ==
    IF op.t = "string" THEN ToLowerCase(op.v)
    ELSE defaultAnalysis.overallPerformance

\* lines 252-255
validatedPerformance(op) ==
    IF op.t = "string" /\ ToLowerCase(op.v) \in Performances
    THEN ToLowerCase(op.v)
    ELSE defaultAnalysis.overallPerformance

\* lines 251-265
validatedAnalysis(parsed) ==
    [overallPerformance |-> validatedPerformance(Field(parsed, "overallPerformance")),
     strengths  |-> firstThree(Field(parsed, "strengths"), defaultAnalysis.strengths),
     weaknesses |-> firstThree(Field(parsed, "weaknesses"), defaultAnalysis.weaknesses),
     improvementSuggestions |->
        firstThree(Field(parsed, "improvementSuggestions"),
                   defaultAnalysis.improvementSuggestions)]

\* what makes the try block throw: the call rejects; JSON.parse throws
\* (line 239); parsed is null, so that line 253 reads a property of null;
\* overallPerformance is neither a string nor missing, so that
\* ?.toLowerCase() calls what is no function
analysisThrows(r) ==
    \/ r.status = "rejected"
    \/ r.status = "content" /\ ~r.parses
    \/ parsedAnalysis(r).t = "null"
    \/ Field(parsedAnalysis(r), "overallPerformance").t
          \notin {"undefined", "null", "string"}

\* lines 216-276: the value analyzeResults stores
analysisOf(r) ==
    IF analysisThrows(r) THEN failedAnalysis ELSE validatedAnalysis(parsedAnalysis(r))

\* replies of the oracle to "Analyze these interview results"
AnalysisReplies ==
    { Parses(JObj(JStr(<<"G","o","o","d">>),
                  JArr(<<"s1", "s2", "s3">>),
                  JArr(<<"w1", "w2">>),
                  JArr(<<"i1", "i2", "i3", "i4">>))) }

WideAnalysisReplies == AnalysisReplies \cup { Malformed, NoContent }

\* objects whose fields pass or fail validation one by one, and JSON values
\* that are no object
FullAnalysisReplies ==
    WideAnalysisReplies \cup
    { Parses(JObj(JStr(<<"g","r","e","a","t">>),
                  JStr(<<"s">>),
                  JUndefined,
                  JArr(<<"i1", "i2", "i3">>))),
      Parses(JObj(JStr(<<"N","E","E","D","S"," ","I","M","P","R","O","V","E",
                         "M","E","N","T">>),
                  JArr(<<"s1", "s2", "s3", "s4", "s5">>),
                  JArr(<<"w1", "w2", "w3">>),
                  JArr(<<>>))),
      Parses(JObj(JNum(5), JArr(<<"s1", "s2", "s3">>), JUndefined, JUndefined)),
      Parses(JObj(JNull, JNull, JNum(3), JArr(<<"i1", "i2", "i3">>))),
      Parses(JObj(JUndefined, JUndefined, JUndefined, JUndefined)),
      Parses(JNull),
      Parses(JArr(<<"x", "y", "z">>)),
      Parses(JStr(<<"g","o","o","d">>)) }

analysisFrom == [r \in FullAnalysisReplies \cup {Rejected} |-> analysisOf(r)]

----------------------------------------------------------------------------
(* The interview session: startInterview (135-148), handleAnswerSubmit     *)
(* (157-197) and the buttons of the results view (375-400).                *)

\* text the user types into the answer box
Answers == { <<"a">> }

WideAnswers == { <<" ">>, <<"\n"," ">>, <<"a">>, <<" ","b"," ">> }

\* line 322: the self-assessment options
McqOptions == {1, 2, 3, 4, 5}

\* line 296: renderResults shows the results view
ResultsShown == interviewCompleted /\ resultAnalysis # NoAnalysis

\* lines 478-497: the answer form is rendered
FormShown == ~interviewCompleted /\ interviewing

\* lines 137-144: startInterview past its guard, up to the await of line 144;
\* the continuation keeps the skills of the render it was called in
startInterviewBodyTotalKept ==
    /\ history' = <<>>
    /\ totalScore' = totalScore
    /\ interviewing' = TRUE
    /\ currentQuestionIndex' = 0
    /\ interviewCompleted' = FALSE
    /\ selectedMcqOption' = 0
    /\ tasks' = Spawn([op |-> "startInterview", pc |-> "generateQuestions",
                       skills |-> skills])

startInterviewBody ==
    /\ history' = <<>>
    /\ totalScore' = 0
    /\ interviewing' = TRUE
    /\ currentQuestionIndex' = 0
    /\ interviewCompleted' = FALSE
    /\ selectedMcqOption' = 0
    /\ tasks' = Spawn([op |-> "startInterview", pc |-> "generateQuestions",
                       skills |-> skills])

\* lines 458-466: the Start Interview button, rendered when isResumeValid and
\* enabled unless interviewing or without skills; line 136 repeats the guard
StartInterview ==
    /\ ~interviewCompleted
    /\ isResumeValid = "true"
    /\ ~interviewing
    /\ Len(skills) # 0
    /\ startInterviewBody
    /\ last' = Last("startInterview", "start", NoResponse)
    /\ UNCHANGED <<currentQuestion, answer, questions, resultAnalysis>>
    /\ UNCHANGED resumeVars
    /\ UNCHANGED challengeVars

\* lines 376-386: Retake Interview; startInterview returns at once (line 136)
\* when there are no skills
RetakeInterview ==
    /\ ResultsShown
    /\ IF Len(skills) = 0
       THEN /\ interviewCompleted' = FALSE
            /\ history' = <<>>
            /\ totalScore' = 0
            /\ UNCHANGED <<interviewing, currentQuestionIndex, selectedMcqOption, tasks>>
       ELSE startInterviewBody
    /\ last' = Last("retake", "start", NoResponse)
    /\ UNCHANGED <<currentQuestion, answer, questions, resultAnalysis>>
    /\ UNCHANGED resumeVars
    /\ UNCHANGED challengeVars

\* lines 387-399: Upload New Resume
UploadNewResume ==
    /\ ResultsShown
    /\ interviewCompleted' = FALSE
    /\ history' = <<>>
    /\ totalScore' = 0
    /\ skills' = <<>>
    /\ resumeText' = <<>>
    /\ isResumeValid' = "null"
    /\ last' = Last("uploadNewResume", "start", NoResponse)
    /\ UNCHANGED <<currentQuestionIndex, currentQuestion, answer, interviewing,
                   questions, resultAnalysis, selectedMcqOption, isProcessing, tasks>>
    /\ UNCHANGED challengeVars

\* the options the user of the model clicks
OptionsClicked == {3}

\* line 326: a self-assessment option is clicked
SelectMcqOption ==
    /\ ResultsShown
    /\ \E option \in McqOptions \cap OptionsClicked :
          /\ option # selectedMcqOption
          /\ selectedMcqOption' = option
    /\ last' = Last("selectMcqOption", "start", NoResponse)
    /\ UNCHANGED <<currentQuestionIndex, currentQuestion, answer, history,
                   interviewing, totalScore, questions, interviewCompleted,
                   resultAnalysis, resumeVars, tasks>>
    /\ UNCHANGED challengeVars

\* lines 126-132 and 145-147: the question-generation call has returned
GenerateQuestionsReturned(t, r) ==
    LET generated == questionsFrom[r] IN
    /\ questions' = generated
    /\ currentQuestion' = IF Len(generated) > 0 THEN generated[1] ELSE currentQuestion
    /\ tasks' = Finish(t)
    /\ last' = Last("startInterview", "generateQuestions", r)

\* line 115: the call rejects; neither generateQuestions nor startInterview
\* nor its callers catch, the rejection is unhandled
GenerateQuestionsRejected(t) ==
    /\ tasks' = Finish(t)
    /\ last' = Last("startInterview", "generateQuestions", Rejected)
    /\ UNCHANGED <<questions, currentQuestion>>

GenerateQuestionsReply(replies) ==
    \E t \in TasksAt("startInterview", "generateQuestions") :
        /\ \/ \E r \in replies : GenerateQuestionsReturned(t, r)
           \/ GenerateQuestionsRejected(t)
        /\ UNCHANGED <<currentQuestionIndex, answer, history, interviewing,
                       totalScore, interviewCompleted, resultAnalysis,
                       selectedMcqOption>>
        /\ UNCHANGED resumeVars
        /\ UNCHANGED challengeVars

\* line 486: the user edits the answer
TypeAnswer(texts) ==
    /\ FormShown
    /\ \E text \in texts :
          /\ text # answer
          /\ answer' = text
    /\ last' = Last("setAnswer", "start", NoResponse)
    /\ UNCHANGED <<currentQuestionIndex, currentQuestion, history, interviewing,
                   totalScore, questions, interviewCompleted, resultAnalysis,
                   selectedMcqOption, resumeVars, tasks>>
    /\ UNCHANGED challengeVars

\* the guard of line 159 without its trim(): only the empty text is turned down
answerRejectedUntrimmed == answer = <<>>

\* line 159: if (!answer.trim()) return
answerRejected == Trim(answer) = <<>>

\* lines 157-172: the form is submitted (button or Enter, line 150); the
\* continuation keeps the values of the render it was called in
HandleAnswerSubmit ==
    /\ FormShown
    /\ IF answerRejected
       THEN /\ last' = Last("handleAnswerSubmit", "rejected", NoResponse)
            /\ UNCHANGED tasks
       ELSE /\ tasks' = Spawn([op |-> "handleAnswerSubmit", pc |-> "score",
                               answer |-> answer,
                               currentQuestion |-> currentQuestion,
                               history |-> history,
                               totalScore |-> totalScore,
                               currentQuestionIndex |-> currentQuestionIndex,
                               questions |-> questions])
            /\ last' = Last("handleAnswerSubmit", "start", NoResponse)
    /\ UNCHANGED <<sessionVars, resumeVars>>
    /\ UNCHANGED challengeVars

\* lines 179-184
newHistory(t, r) ==
    Append(t.history,
           [question |-> t.currentQuestion,
            answer   |-> t.answer,
            feedback |-> scored[r].feedback,
            score    |-> scored[r].score])

\* lines 174-193 with line 186 storing the score alone, the running total
\* dropped
ScoreReturnedTotalDropped(t, r) ==
    /\ history' = newHistory(t, r)
    /\ totalScore' = scored[r].score
    /\ answer' = <<>>
    /\ IF t.currentQuestionIndex + 1 < Len(t.questions)
       THEN /\ currentQuestionIndex' = t.currentQuestionIndex + 1
            /\ currentQuestion' = t.questions[t.currentQuestionIndex + 2]
            /\ tasks' = Finish(t)
       ELSE /\ tasks' = Become(t, [op |-> "handleAnswerSubmit", pc |-> "analyzeResults"])
            /\ UNCHANGED <<currentQuestionIndex, currentQuestion>>
    /\ last' = Last("handleAnswerSubmit", "score", r)

\* lines 174-193: the scoring call has returned; the last question leads to
\* the await of analyzeResults
ScoreReturned(t, r) ==
    /\ history' = newHistory(t, r)
    /\ totalScore' = t.totalScore + scored[r].score
    /\ answer' = <<>>
    /\ IF t.currentQuestionIndex + 1 < Len(t.questions)
       THEN /\ currentQuestionIndex' = t.currentQuestionIndex + 1
            /\ currentQuestion' = t.questions[t.currentQuestionIndex + 2]
            /\ tasks' = Finish(t)
       ELSE /\ tasks' = Become(t, [op |-> "handleAnswerSubmit", pc |-> "analyzeResults"])
            /\ UNCHANGED <<currentQuestionIndex, currentQuestion>>
    /\ last' = Last("handleAnswerSubmit", "score", r)

\* line 161: the call rejects; nothing catches, the rejection is unhandled
\* and the rest of handleAnswerSubmit does not run
ScoreRejected(t) ==
    /\ tasks' = Finish(t)
    /\ last' = Last("handleAnswerSubmit", "score", Rejected)
    /\ UNCHANGED <<history, totalScore, answer, currentQuestionIndex, currentQuestion>>

ScoreReply(replies) ==
    \E t \in TasksAt("handleAnswerSubmit", "score") :
        /\ \/ \E r \in replies : ScoreReturned(t, r)
           \/ ScoreRejected(t)
        /\ UNCHANGED <<interviewing, questions, interviewCompleted, resultAnalysis,
                       selectedMcqOption>>
        /\ UNCHANGED resumeVars
        /\ UNCHANGED challengeVars

\* lines 193-195 without line 194: interviewing is left as it is
AnalyzeResultsReturnedStillInterviewing(t, r) ==
    /\ resultAnalysis' = analysisFrom[r]
    /\ interviewing' = interviewing
    /\ interviewCompleted' = TRUE
    /\ tasks' = Finish(t)
    /\ last' = Last("handleAnswerSubmit", "analyzeResults", r)

\* lines 193-195: analyzeResults has stored its value (lines 267, 270) and
\* handleAnswerSubmit goes on
AnalyzeResultsReturned(t, r) ==
    /\ resultAnalysis' = analysisFrom[r]
    /\ interviewing' = FALSE
    /\ interviewCompleted' = TRUE
    /\ tasks' = Finish(t)
    /\ last' = Last("handleAnswerSubmit", "analyzeResults", r)

AnalyzeResultsReply(replies) ==
    \E t \in TasksAt("handleAnswerSubmit", "analyzeResults") :
        /\ \E r \in replies \cup {Rejected} : AnalyzeResultsReturned(t, r)
        /\ UNCHANGED <<currentQuestionIndex, currentQuestion, answer, history,
                       totalScore, questions, selectedMcqOption>>
        /\ UNCHANGED resumeVars
        /\ UNCHANGED challengeVars

\* The step taken last was a call that rejected where no try block encloses
\* it: line 115 (generateQuestions, awaited by startInterview at line 144
\* outside any try) and line 161 (handleAnswerSubmit).  The calls of
\* handleFileUpload (try of lines 57-94) and of analyzeResults (try of lines
\* 216-276) are enclosed.
unhandledRejection ==
    /\ last.response = Rejected
    /\ \/ last.op = "startInterview" /\ last.pc = "generateQuestions"
       \/ last.op = "handleAnswerSubmit" /\ last.pc = "score"

----------------------------------------------------------------------------
(* CodeEditor, the variant with test cases and stopwatch: part_000, lines  *)
(* 378-893.  Texts are sequences of characters, as above; the settings and *)
(* the tab are strings of a fixed list.                                    *)

JBool(b) == [t |-> "boolean", v |-> b]

\* a value of JavaScript is truthy: what || and ! and && ask
Truthy(v) ==
    CASE v.t = "undefined" -> FALSE
      [] v.t = "null"      -> FALSE
      [] v.t = "string"    -> Len(v.v) > 0
      [] v.t = "number"    -> v.v # 0
      [] v.t = "boolean"   -> v.v
      [] OTHER             -> TRUE

\* reading a property of null or undefined throws a TypeError
PropertyThrows(parsed) == parsed.t \in {"null", "undefined"}

\* lines 381-384 and 493-496
NotAnalyzedYet ==
    <<"N","o","t"," ","a","n","a","l","y","z","e","d"," ","y","e","t">>

initialAnalysis ==
    [timeComplexity |-> NotAnalyzedYet, spaceComplexity |-> NotAnalyzedYet,
     suggestion |-> JUndefined, correctedCode |-> JUndefined]

\* lines 509-513
NotAnalyzed ==
    <<"N","o","t"," ","a","n","a","l","y","z","e","d">>

WriteCodeFirst ==
    <<"P","l","e","a","s","e"," ","w","r","i","t","e"," ","y","o","u","r",
      " ","s","o","l","u","t","i","o","n"," ","c","o","d","e"," ","f","i",
      "r","s","t"," ","b","e","f","o","r","e"," ","a","n","a","l","y","z",
      "i","n","g",".">>

notAnalyzed ==
    [timeComplexity |-> NotAnalyzed, spaceComplexity |-> NotAnalyzed,
     suggestion |-> JStr(WriteCodeFirst), correctedCode |-> JUndefined]

\* lines 519-524
Analyzing ==
    <<"A","n","a","l","y","z","i","n","g",".",".",".">>

analyzing ==
    [timeComplexity |-> Analyzing, spaceComplexity |-> Analyzing,
     suggestion |-> JUndefined, correctedCode |-> JUndefined]

\* line 380
LoadingQuestion ==
    <<"L","o","a","d","i","n","g"," ","q","u","e","s","t","i","o","n",".",
      ".",".">>

\* lines 485 and 489
CouldNotGenerate ==
    <<"C","o","u","l","d","n","'","t"," ","g","e","n","e","r","a","t","e",
      " ","q","u","e","s","t","i","o","n">>

\* line 499
CouldNotLoad ==
    <<"W","e"," ","c","o","u","l","d","n","'","t"," ","l","o","a","d"," ",
      "a"," ","q","u","e","s","t","i","o","n","."," ","P","l","e","a","s",
      "e"," ","c","h","e","c","k"," ","y","o","u","r"," ","c","o","n","n",
      "e","c","t","i","o","n"," ","a","n","d"," ","t","r","y"," ","a","g",
      "a","i","n",".">>

\* lines 562-563
CouldNotDetermine ==
    <<"C","o","u","l","d"," ","n","o","t"," ","d","e","t","e","r","m","i",
      "n","e">>

\* lines 569-570
AnalysisFailed ==
    <<"A","n","a","l","y","s","i","s"," ","f","a","i","l","e","d">>

\* line 572
SuggestionPrefix ==
    <<"S","u","g","g","e","s","t","i","o","n",":"," ">>

\* line 551
NoAnalysisResults ==
    <<"T","h","e"," ","a","n","a","l","y","s","i","s"," ","d","i","d","n",
      "'","t"," ","r","e","t","u","r","n"," ","a","n","y"," ","r","e","s",
      "u","l","t","s","."," ","P","l","e","a","s","e"," ","t","r","y"," ",
      "a","g","a","i","n",".">>

\* line 558
AnalysisNotUnderstood ==
    <<"W","e"," ","c","o","u","l","d","n","'","t"," ","u","n","d","e","r",
      "s","t","a","n","d"," ","t","h","e"," ","a","n","a","l","y","s","i",
      "s"," ","r","e","s","p","o","n","s","e","."," ","P","l","e","a","s",
      "e"," ","t","r","y"," ","a","g","a","i","n",".">>

\* the message of the error a rejected call of the oracle carries, and of
\* the TypeError of reading a property of null
ConnectionError ==
    <<"C","o","n","n","e","c","t","i","o","n"," ","e","r","r","o","r",".">>

NullProperty ==
    <<"C","a","n","n","o","t"," ","r","e","a","d"," ","p","r","o","p","e",
      "r","t","i","e","s"," ","o","f"," ","n","u","l","l">>

\* lines 355-360: a test case as the reply carries it
JCase(i, e, a, p) ==
    [t |-> "object",
     v |-> [input |-> i, expectedOutput |-> e, actualOutput |-> a, passed |-> p]]

\* lines 460-476: the reply asked of the generation call
JQuestion(q, tc) == [t |-> "object", v |-> [question |-> q, testCases |-> tc]]

\* lines 532-537: the reply asked of the analysis call
JCodeAnalysis(tc, sc, su, cc) ==
    [t |-> "object",
     v |-> [timeComplexity |-> tc, spaceComplexity |-> sc,
            suggestion |-> su, correctedCode |-> cc]]

\* lines 596-606: the reply asked of the test run
JResults(tr) == [t |-> "object", v |-> [testResults |-> tr]]

\* the options offered, of lines 362-376 and 677-681
Languages == {"java", "python"}

Difficulties == {"medium", "hard"}

Topics == {"array", "string"}

Tabs == {"testcases", "results"}

\* what the user types into the textarea
Codes == {<<>>, <<" ">>, <<"c">>}

Case(i, e) == JCase(JStr(<<i>>), JStr(<<e>>), JUndefined, JUndefined)

RanCase(i, e, a, p) == JCase(JStr(<<i>>), JStr(<<e>>), JStr(<<a>>), JBool(p))

ThreeCases == <<Case("1", "2"), Case("3", "4"), Case("5", "6")>>

TwoCases == <<Case("1", "2"), Case("3", "4")>>

ThreeRanCases ==
    <<RanCase("1", "2", "2", TRUE), RanCase("3", "4", "0", FALSE),
      RanCase("5", "6", "6", TRUE)>>

AQuestion == JStr(<<"q">>)

\* what the generation call answers
GenerationReplies ==
    {Parses(JQuestion(AQuestion, JArr(ThreeCases))),
     Parses(JQuestion(AQuestion, JArr(TwoCases))),
     Parses(JQuestion(AQuestion, JArr(ThreeRanCases))),
     Parses(JQuestion(JUndefined, JUndefined)),
     Parses(JNull),
     Malformed,
     NoContent}

\* what the analysis call answers
CodeAnalysisReplies ==
    {Parses(JCodeAnalysis(JStr(<<"n">>), JStr(<<"1">>), JStr(<<"s">>),
                          JStr(<<"d">>))),
     Parses(JCodeAnalysis(JStr(<<>>), JUndefined, JUndefined, JUndefined)),
     Parses(JNull),
     Malformed,
     NoContent}

\* what the test run answers
TestRunReplies ==
    {Parses(JResults(JArr(ThreeRanCases))),
     Parses(JResults(JUndefined)),
     Parses(JNull),
     Malformed,
     NoContent}

\* lines 430-441: the stopwatch's handlers
startStopwatch == isRunning' = TRUE

stopStopwatch == isRunning' = FALSE

resetStopwatch ==
    /\ isRunning' = FALSE
    /\ time' = 0

\* lines 407-422: while isRunning the interval set by the effect ticks once
\* a second; the effect clears it with the render that finds isRunning off
TickWhileStopped ==
    /\ time < MaxTime
    /\ time' = time + 1
    /\ last' = Last("stopwatch", "tick", NoResponse)
    /\ UNCHANGED <<code, question, analysis, loading, settingVars,
                   questionLoading, showCorrectedCode, testCases, testResults,
                   runningTests, activeTab, isRunning, tasks>>
    /\ UNCHANGED <<resumeVars, sessionVars>>

Tick ==
    /\ isRunning
    /\ time < MaxTime
    /\ time' = time + 1
    /\ last' = Last("stopwatch", "tick", NoResponse)
    /\ UNCHANGED <<code, question, analysis, loading, settingVars,
                   questionLoading, showCorrectedCode, testCases, testResults,
                   runningTests, activeTab, isRunning, tasks>>
    /\ UNCHANGED <<resumeVars, sessionVars>>

\* lines 448-452: generateQuestion up to its call of the oracle
generateQuestion ==
    /\ questionLoading' = TRUE
    /\ resetStopwatch
    /\ tasks' = Spawn([op |-> "generateQuestion", pc |-> "generate"])
    /\ UNCHANGED <<code, question, analysis, loading, showCorrectedCode,
                   testCases, testResults, runningTests, activeTab>>
    /\ UNCHANGED <<resumeVars, sessionVars>>

\* the component has rendered and its effects have not run yet: "Loading
\* question..." is shown from construction to the first reply
Mounting ==
    /\ question = LoadingQuestion
    /\ TasksAt("generateQuestion", "generate") = {}

\* lines 443-446: the effect, on mount
Mount ==
    /\ Mounting
    /\ generateQuestion
    /\ last' = Last("generateQuestion", "mount", NoResponse)
    /\ UNCHANGED settingVars

\* lines 664-705: the selects, disabled while a question is loading; the
\* effect of lines 443-446 runs with the render that follows the change
SetLanguage ==
    /\ ~questionLoading
    /\ \E l \in Languages \ {language} : language' = l
    /\ generateQuestion
    /\ last' = Last("generateQuestion", "language", NoResponse)
    /\ UNCHANGED <<difficulty, topic>>

SetDifficulty ==
    /\ ~questionLoading
    /\ \E d \in Difficulties \ {difficulty} : difficulty' = d
    /\ generateQuestion
    /\ last' = Last("generateQuestion", "difficulty", NoResponse)
    /\ UNCHANGED <<language, topic>>

SetTopic ==
    /\ ~questionLoading
    /\ \E p \in Topics \ {topic} : topic' = p
    /\ generateQuestion
    /\ last' = Last("generateQuestion", "topic", NoResponse)
    /\ UNCHANGED <<language, difficulty>>

\* lines 636-638 and the button of lines 647-653
GenerateNewQuestionWhileLoading ==
    /\ InFlight < MaxInFlight
    /\ generateQuestion
    /\ last' = Last("generateQuestion", "newQuestion", NoResponse)
    /\ UNCHANGED settingVars

GenerateNewQuestion ==
    /\ ~questionLoading
    /\ generateQuestion
    /\ last' = Last("generateQuestion", "newQuestion", NoResponse)
    /\ UNCHANGED settingVars

\* lines 483-488 throw: no content, content that is no JSON, or JSON null,
\* whose property cannot be read; a rejected call throws at line 452
generationThrows(r) ==
    \/ r.status # "content"
    \/ ~r.parses
    \/ PropertyThrows(r.json)

\* lines 483-504: the call has returned r
GenerateQuestionReturned(t, r) ==
    /\ tasks' = Finish(t)
    /\ last' = Last("generateQuestion", "reply", r)
    /\ IF generationThrows(r)
       THEN /\ question' = CouldNotLoad
            /\ stopStopwatch
            /\ UNCHANGED <<testCases, testResults, code, analysis>>
       ELSE /\ question' = IF Truthy(Field(r.json, "question"))
                           THEN Field(r.json, "question").v
                           ELSE CouldNotGenerate
            /\ testCases' = IF Truthy(Field(r.json, "testCases"))
                            THEN Field(r.json, "testCases").v
                            ELSE <<>>
            /\ testResults' = <<>>
            /\ code' = <<>>
            /\ analysis' = initialAnalysis
            /\ startStopwatch
    /\ questionLoading' = FALSE
    /\ UNCHANGED <<loading, settingVars, showCorrectedCode, runningTests,
                   activeTab, time>>

GenerateQuestionReply(replies) ==
    \E t \in TasksAt("generateQuestion", "generate") :
        /\ \E r \in replies \cup {Rejected} : GenerateQuestionReturned(t, r)
        /\ UNCHANGED <<resumeVars, sessionVars>>

\* lines 736-743: the textarea, disabled while a question is loading
SetCode(texts) ==
    /\ ~questionLoading
    /\ \E c \in texts \ {code} : code' = c
    /\ last' = Last("setCode", "event", NoResponse)
    /\ UNCHANGED <<question, analysis, loading, settingVars, questionLoading,
                   showCorrectedCode, testCases, testResults, runningTests,
                   activeTab, stopwatchVars, tasks>>
    /\ UNCHANGED <<resumeVars, sessionVars>>

\* lines 508 and 581: !code.trim()
codeMissingUntrimmed(c) == c = <<>>

codeMissing(c) == Trim(c) = <<>>

\* lines 507-527 and the button of lines 707-713: analyzeCode up to its call
AnalyzeCode ==
    /\ ~(loading \/ questionLoading)
    /\ IF codeMissing(code)
       THEN /\ analysis' = notAnalyzed
            /\ last' = Last("analyzeCode", "nocode", NoResponse)
            /\ UNCHANGED <<loading, showCorrectedCode, isRunning, tasks>>
       ELSE /\ loading' = TRUE
            /\ showCorrectedCode' = FALSE
            /\ analysis' = analyzing
            /\ stopStopwatch
            /\ tasks' = Spawn([op |-> "analyzeCode", pc |-> "analyze"])
            /\ last' = Last("analyzeCode", "start", NoResponse)
    /\ UNCHANGED <<code, question, settingVars, questionLoading, testCases,
                   testResults, runningTests, activeTab, time>>
    /\ UNCHANGED <<resumeVars, sessionVars>>

NoError == [thrown |-> FALSE, message |-> <<>>]

Error(m) == [thrown |-> TRUE, message |-> m]

\* lines 528-559: what the try block throws on r
codeAnalysisError(r) ==
    IF r.status = "rejected" THEN Error(ConnectionError)
    ELSE IF r.status = "nocontent" THEN Error(NoAnalysisResults)
    ELSE IF ~r.parses THEN Error(AnalysisNotUnderstood)
    ELSE IF PropertyThrows(r.json) THEN Error(NullProperty)
    ELSE NoError

\* lines 561-566
validatedCodeAnalysisUndefaulted(parsed) ==
    [timeComplexity  |-> Field(parsed, "timeComplexity").v,
     spaceComplexity |-> IF Truthy(Field(parsed, "spaceComplexity"))
                         THEN Field(parsed, "spaceComplexity").v
                         ELSE CouldNotDetermine,
     suggestion      |-> Field(parsed, "suggestion"),
     correctedCode   |-> Field(parsed, "correctedCode")]

validatedCodeAnalysis(parsed) ==
    [timeComplexity  |-> IF Truthy(Field(parsed, "timeComplexity"))
                         THEN Field(parsed, "timeComplexity").v
                         ELSE CouldNotDetermine,
     spaceComplexity |-> IF Truthy(Field(parsed, "spaceComplexity"))
                         THEN Field(parsed, "spaceComplexity").v
                         ELSE CouldNotDetermine,
     suggestion      |-> Field(parsed, "suggestion"),
     correctedCode   |-> Field(parsed, "correctedCode")]

\* lines 568-574: every value the try block throws is an Error
failedCodeAnalysis(e) ==
    [timeComplexity |-> AnalysisFailed, spaceComplexity |-> AnalysisFailed,
     suggestion |-> JStr(SuggestionPrefix \o e.message),
     correctedCode |-> JUndefined]

\* lines 549-577: the call has returned r
AnalyzeCodeReturnedResuming(t, r) ==
    /\ tasks' = Finish(t)
    /\ last' = Last("analyzeCode", "reply", r)
    /\ analysis' = IF codeAnalysisError(r).thrown
                   THEN failedCodeAnalysis(codeAnalysisError(r))
                   ELSE validatedCodeAnalysis(r.json)
    /\ loading' = FALSE
    /\ isRunning' = TRUE
    /\ UNCHANGED <<code, question, settingVars, questionLoading,
                   showCorrectedCode, testCases, testResults, runningTests,
                   activeTab, time>>

AnalyzeCodeReturned(t, r) ==
    /\ tasks' = Finish(t)
    /\ last' = Last("analyzeCode", "reply", r)
    /\ analysis' = IF codeAnalysisError(r).thrown
                   THEN failedCodeAnalysis(codeAnalysisError(r))
                   ELSE validatedCodeAnalysis(r.json)
    /\ loading' = FALSE
    /\ UNCHANGED <<code, question, settingVars, questionLoading,
                   showCorrectedCode, testCases, testResults, runningTests,
                   activeTab, stopwatchVars>>

AnalyzeCodeReply(replies) ==
    \E t \in TasksAt("analyzeCode", "analyze") :
        /\ \E r \in replies \cup {Rejected} : AnalyzeCodeReturned(t, r)
        /\ UNCHANGED <<resumeVars, sessionVars>>

\* lines 580-590 and the button of lines 715-721: runTestCases up to its
\* call; without code it alerts and returns
RunTestCases ==
    /\ ~(runningTests \/ questionLoading \/ Len(testCases) = 0)
    /\ IF codeMissing(code)
       THEN /\ last' = Last("runTestCases", "nocode", NoResponse)
            /\ UNCHANGED <<runningTests, testResults, activeTab, isRunning,
                           tasks>>
       ELSE /\ runningTests' = TRUE
            /\ testResults' = <<>>
            /\ activeTab' = "results"
            /\ stopStopwatch
            /\ tasks' = Spawn([op |-> "runTestCases", pc |-> "run"])
            /\ last' = Last("runTestCases", "start", NoResponse)
    /\ UNCHANGED <<code, question, analysis, loading, settingVars,
                   questionLoading, showCorrectedCode, testCases, time>>
    /\ UNCHANGED <<resumeVars, sessionVars>>

\* lines 621-626 throw, as lines 483-488 do
testRunThrows(r) ==
    \/ r.status # "content"
    \/ ~r.parses
    \/ PropertyThrows(r.json)

\* lines 621-633: the call has returned r
RunTestCasesReturned(t, r) ==
    /\ tasks' = Finish(t)
    /\ last' = Last("runTestCases", "reply", r)
    /\ IF testRunThrows(r)
       THEN UNCHANGED testResults
       ELSE testResults' = IF Truthy(Field(r.json, "testResults"))
                           THEN Field(r.json, "testResults").v
                           ELSE <<>>
    /\ runningTests' = FALSE
    /\ UNCHANGED <<code, question, analysis, loading, settingVars,
                   questionLoading, showCorrectedCode, testCases, activeTab,
                   stopwatchVars>>

RunTestCasesReply(replies) ==
    \E t \in TasksAt("runTestCases", "run") :
        /\ \E r \in replies \cup {Rejected} : RunTestCasesReturned(t, r)
        /\ UNCHANGED <<resumeVars, sessionVars>>

\* lines 748-758: the two tab buttons
SetActiveTab ==
    /\ \E tab \in Tabs \ {activeTab} : activeTab' = tab
    /\ last' = Last("setActiveTab", "event", NoResponse)
    /\ UNCHANGED <<code, question, analysis, loading, settingVars,
                   questionLoading, showCorrectedCode, testCases, testResults,
                   runningTests, stopwatchVars, tasks>>
    /\ UNCHANGED <<resumeVars, sessionVars>>

\* line 863: the corrected code is offered
correctedCodeOffered ==
    /\ Truthy(analysis.correctedCode)
    /\ analysis.correctedCode.v # code

\* lines 865-870
ToggleCorrectedCode ==
    /\ correctedCodeOffered
    /\ showCorrectedCode' = ~showCorrectedCode
    /\ last' = Last("toggleCorrectedCode", "event", NoResponse)
    /\ UNCHANGED <<code, question, analysis, loading, settingVars,
                   questionLoading, testCases, testResults, runningTests,
                   activeTab, stopwatchVars, tasks>>
    /\ UNCHANGED <<resumeVars, sessionVars>>

\* lines 872-884: "Use This Solution"
UseCorrectedCode ==
    /\ correctedCodeOffered
    /\ showCorrectedCode
    /\ code' = IF Truthy(analysis.correctedCode)
               THEN analysis.correctedCode.v
               ELSE <<>>
    /\ showCorrectedCode' = FALSE
    /\ last' = Last("useCorrectedCode", "event", NoResponse)
    /\ UNCHANGED <<question, analysis, loading, settingVars, questionLoading,
                   testCases, testResults, runningTests, activeTab,
                   stopwatchVars, tasks>>
    /\ UNCHANGED <<resumeVars, sessionVars>>

----------------------------------------------------------------------------
(* The components after their first render, lines 31-44 of                 *)
(* InterviewAssistant.tsx and lines 379-398 of part_000, and their steps.  *)

Init ==
    /\ resumeText = <<>>
    /\ skills = <<>>
    /\ currentQuestionIndex = 0
    /\ currentQuestion = <<>>
    /\ answer = <<>>
    /\ history = <<>>
    /\ interviewing = FALSE
    /\ isResumeValid = "null"
    /\ isProcessing = FALSE
    /\ totalScore = 0
    /\ questions = <<>>
    /\ interviewCompleted = FALSE
    /\ resultAnalysis = NoAnalysis
    /\ selectedMcqOption = 0
    /\ code = <<>>
    /\ question = LoadingQuestion
    /\ analysis = initialAnalysis
    /\ loading = FALSE
    /\ language = "java"
    /\ questionLoading = TRUE
    /\ showCorrectedCode = FALSE
    /\ difficulty = "medium"
    /\ topic = "array"
    /\ testCases = <<>>
    /\ testResults = <<>>
    /\ runningTests = FALSE
    /\ activeTab = "testcases"
    /\ time = 0
    /\ isRunning = FALSE
    /\ tasks = EmptyBag
    /\ last = Last("init", "start", NoResponse)

\* The bounds: a handler that leaves a continuation in flight is invoked only
\* while fewer than MaxInFlight are, and an answer is submitted only while
\* history holds fewer than MaxHistory records.
Room == InFlight < MaxInFlight

HistoryRoom == answerRejected \/ (Room /\ Len(history) < MaxHistory)

UploadTasks == {t \in BagToSet(tasks) : t.op = "handleFileUpload"}

\* the await each handler of CodeEditor is suspended at
ChallengeCall ==
    [generateQuestion |-> "generate", analyzeCode |-> "analyze",
     runTestCases |-> "run"]

ChallengeTasks ==
    {t \in BagToSet(tasks) :
        t.op \in {"generateQuestion", "analyzeCode", "runTestCases"}}

SessionTasks ==
    {t \in BagToSet(tasks) : t.op # "handleFileUpload"} \ ChallengeTasks

\* The user of Spec takes one thing at a time: a file is chosen only while no
\* interview is in progress, and an interview is started only once the
\* uploads have been processed.  Within the upload flow and within the
\* session every interleaving is taken.
UploadIdle == UploadTasks = {}

SessionIdle == ~interviewing /\ SessionTasks = {}

Next ==
    \/ SessionIdle /\ Room /\ HandleFileUpload
    \/ SessionIdle /\ HandleFileUploadNoFile
    \/ ReaderOnLoad(Texts)
    \/ ReaderError
    \/ VerifyReply(VerifyReplies)
    \/ ExtractSkillsReply(SkillReplies)
    \/ UploadIdle /\ Room /\ StartInterview
    \/ UploadIdle /\ Room /\ RetakeInterview
    \/ UploadNewResume
    \/ SelectMcqOption
    \/ GenerateQuestionsReply(QuestionReplies)
    \/ TypeAnswer(Answers)
    \/ HistoryRoom /\ HandleAnswerSubmit
    \/ ScoreReply(ScoreReplies)
    \/ AnalyzeResultsReply(AnalysisReplies)

Spec == Init /\ [][Next]_vars

\* The upload of resumes alone: no interview is started.
NextUpload ==
    \/ Room /\ HandleFileUpload
    \/ HandleFileUploadNoFile
    \/ ReaderOnLoad(WideTexts)
    \/ ReaderError
    \/ VerifyReply(WideVerifyReplies)
    \/ ExtractSkillsReply(WideSkillReplies)

SpecUpload == Init /\ [][NextUpload]_vars

\* SpecUploadFair is SpecUpload where every read of a file and every call of
\* the oracle that is in flight eventually returns or fails.
SpecUploadFair ==
    /\ SpecUpload
    /\ WF_vars(ReaderOnLoad(WideTexts) \/ ReaderError)
    /\ WF_vars(VerifyReply(WideVerifyReplies))
    /\ WF_vars(ExtractSkillsReply(WideSkillReplies))

\* The session taken one call at a time: the user submits an answer only
\* when no call of the session is in flight (a submission that line 159
\* turns down is made at any time).
NextSeq ==
    \/ SessionIdle /\ Room /\ HandleFileUpload
    \/ SessionIdle /\ HandleFileUploadNoFile
    \/ ReaderOnLoad(Texts)
    \/ ReaderError
    \/ VerifyReply(VerifyReplies)
    \/ ExtractSkillsReply(WideSkillReplies)
    \/ UploadIdle /\ Room /\ StartInterview
    \/ UploadIdle /\ Room /\ RetakeInterview
    \/ UploadNewResume
    \/ SelectMcqOption
    \/ GenerateQuestionsReply(WideQuestionReplies)
    \/ TypeAnswer(WideAnswers)
    \/ (answerRejected \/ SessionTasks = {}) /\ HandleAnswerSubmit
    \/ ScoreReply(WideScoreReplies)
    \/ AnalyzeResultsReply(WideAnalysisReplies)

SpecSeq == Init /\ [][NextSeq]_vars

\* One resume and one session, taken one call at a time, the oracle replying
\* from the full sets: what the component reads from each reply.
NextReplies ==
    \/ SessionIdle /\ UploadIdle /\ isResumeValid = "null" /\ HandleFileUpload
    \/ ReaderOnLoad(Texts)
    \/ VerifyReply(VerifyReplies)
    \/ ExtractSkillsReply(SkillReplies)
    \/ UploadIdle /\ StartInterview
    \/ GenerateQuestionsReply(FullQuestionReplies)
    \/ TypeAnswer(Answers)
    \/ (answerRejected \/ (SessionTasks = {} /\ Len(history) < MaxHistory))
          /\ HandleAnswerSubmit
    \/ ScoreReply(FullScoreReplies)
    \/ AnalyzeResultsReply(FullAnalysisReplies)

SpecReplies == Init /\ [][NextReplies]_vars

\* SpecChallenge follows CodeEditor: its effect on mount, the user's events
\* as the buttons' disabled conditions admit them, the stopwatch's ticks and
\* the replies of the three calls, in every interleaving.
NextChallenge ==
    \/ Mount
    \/ SetLanguage
    \/ SetDifficulty
    \/ SetTopic
    \/ GenerateNewQuestion
    \/ GenerateQuestionReply(GenerationReplies)
    \/ SetCode(Codes)
    \/ AnalyzeCode
    \/ AnalyzeCodeReply(CodeAnalysisReplies)
    \/ RunTestCases
    \/ RunTestCasesReply(TestRunReplies)
    \/ SetActiveTab
    \/ ToggleCorrectedCode
    \/ UseCorrectedCode
    \/ Tick

SpecChallenge == Init /\ [][NextChallenge]_vars

----------------------------------------------------------------------------
(* Properties.                                                             *)

\* the step taken last is one of the resets of the session: Start Interview,
\* Retake Interview, Upload New Resume
ResetStep ==
    /\ last'.pc = "start"
    /\ last'.op \in {"startInterview", "retake", "uploadNewResume"}

IsPrefix(a, b) == Len(a) <= Len(b) /\ SubSeq(b, 1, Len(a)) = a

RECURSIVE SumScores(_)
SumScores(h) == IF h = <<>> THEN 0 ELSE h[1].score + SumScores(Tail(h))

\* a ResultAnalysis as the interface of lines 18-23 has it after validation:
\* one of the four ratings and three entries in each list
ValidAnalysis(a) ==
    /\ a # NoAnalysis
    /\ a.overallPerformance \in Performances
    /\ Len(a.strengths) = 3
    /\ Len(a.weaknesses) = 3
    /\ Len(a.improvementSuggestions) = 3

\* the text is empty or holds white space only
Blank(s) == \A i \in 1..Len(s) : s[i] \in {" ", "\n", "\t", "\r"}

\* C1: a record of history stays where it is, unchanged, until the next
\* reset: every step that is no Start / Retake / Upload New Resume leaves
\* the history it finds as a prefix of the history it leaves, whatever the
\* interleaving of submissions and scoring replies.
C1_HistoryKept == [][ResetStep \/ IsPrefix(history, history')]_vars

\* C2: interviewCompleted is set once in a session and at the last question:
\* the step that sets it finds the flag unset and the index, once
\* incremented, equal to the number of questions.
C2_CompletedOnceAtEnd ==
    [][ (last'.op = "handleAnswerSubmit" /\ last'.pc = "analyzeResults")
        => /\ ~interviewCompleted
           /\ currentQuestionIndex + 1 = Len(questions) ]_vars

\* C3: currentQuestionIndex is at most the number of questions in every
\* reachable state.
C3_IndexWithinQuestions == currentQuestionIndex <= Len(questions)

\* C4: in every reachable state where interviewCompleted is true,
\* resultAnalysis has been stored (is not null) and interviewing is false.
C4_CompletedHasAnalysis ==
    interviewCompleted => (resultAnalysis # NoAnalysis /\ ~interviewing)

\* C4 witness: a session has completed after an analysis call that failed,
\* with a scoring call of that session still in flight
C4_Witness ==
    /\ interviewCompleted
    /\ last = Last("handleAnswerSubmit", "analyzeResults", Rejected)
    /\ resultAnalysis = failedAnalysis
    /\ TasksAt("handleAnswerSubmit", "score") # {}

\* C5: answers submitted one at a time, N >= 1 questions.  Every scoring
\* reply appends one record to history and adds its score to totalScore; once
\* N records are in, the analysis is under way, and in the completed session
\* history holds N records, totalScore is the sum of their scores and
\* resultAnalysis is a validated ResultAnalysis.
C5_SequentialSession ==
    /\ [][ (last'.op = "handleAnswerSubmit" /\ last'.pc = "score"
               /\ last'.response # Rejected)
           => /\ Len(history') = Len(history) + 1
              /\ IsPrefix(history, history')
              /\ history'[Len(history')].question = currentQuestion
              /\ totalScore' = totalScore + history'[Len(history')].score ]_vars
    /\ [] ( (interviewing /\ Len(questions) >= 1 /\ Len(history) >= Len(questions))
            => TasksAt("handleAnswerSubmit", "analyzeResults") # {} )
    /\ [] ( (interviewCompleted /\ Len(questions) >= 1)
            => /\ Len(history) = Len(questions)
               /\ totalScore = SumScores(history)
               /\ ValidAnalysis(resultAnalysis) )

\* C5 witness: a session of two questions has completed, the two records in
\* history carrying different scores
C5_Witness ==
    /\ interviewCompleted
    /\ Len(questions) = 2
    /\ Len(history) = 2
    /\ history[1].score # history[2].score
    /\ totalScore = history[1].score + history[2].score
    /\ last.op = "handleAnswerSubmit" /\ last.pc = "analyzeResults"

\* C6: the submission of an answer that is empty or white space only issues
\* no call and changes no state variable of the component.
C6_BlankAnswerRejected ==
    [][ (last'.op = "handleAnswerSubmit" /\ last'.pc \in {"rejected", "start"}
            /\ Blank(answer))
        => /\ tasks' = tasks
           /\ UNCHANGED <<sessionVars, resumeVars>> ]_vars

\* C6 witness: an answer of white space only has been turned down while a
\* record is in history
C6_Witness ==
    /\ last = Last("handleAnswerSubmit", "rejected", NoResponse)
    /\ answer = <<"\n", " ">>
    /\ interviewing
    /\ Len(history) = 1

\* C7: a capability call that fails is caught where it is made: no step is
\* a rejection that nothing handles.
C7_FailuresCaught == ~unhandledRejection

\* C8: when handleFileUpload has finished with a document whose verification
\* call returned, isResumeValid is true if the lower-cased reply contains
\* "yes" (the upload went on to extractSkills, whatever that call did) and
\* false if it does not.
C8_ValidIffYes ==
    /\ (last.op = "handleFileUpload" /\ last.pc = "extractSkills")
          => isResumeValid = "true"
    /\ (last.op = "handleFileUpload" /\ last.pc = "verify"
           /\ last.response # Rejected
           /\ ~(HasContent(last.response)
                  /\ Includes(ToLowerCase(last.response.content), <<"y","e","s">>)))
          => isResumeValid = "false"

\* C9: skills is empty in every reachable state where isResumeValid is false
\* or null.
C9_NoSkillsWithoutResume == (isResumeValid # "true") => (skills = <<>>)

\* C10: extractSkills stores the trimmed comma-separated segments of the
\* reply in order, "a, b, c" giving ["a","b","c"], and the empty list for
\* an empty reply.
C10_SkillsOfReply ==
    (last.op = "handleFileUpload" /\ last.pc = "extractSkills")
    => /\ last.response = Content(<<"a",","," ","b",","," ","c">>)
            => skills = << <<"a">>, <<"b">>, <<"c">> >>
       /\ last.response = Content(<<>>) => skills = <<>>

\* C11: when the skill extraction yielded no skill, its reply being empty or
\* missing, Start Interview is inert: the step that follows the extraction
\* is no start of an interview.
C11_StartInertWithoutSkills ==
    [][ (last.op = "handleFileUpload" /\ last.pc = "extractSkills"
            /\ last.response \in {Content(<<>>), NoContent})
        => ~(last'.op = "startInterview" /\ last'.pc = "start") ]_vars

\* the texts of one character each that cs lists
OneCharTexts(cs) == [i \in 1..Len(cs) |-> <<cs[i]>>]

\* C12: generateQuestions keeps the non-blank lines of the reply in their
\* order, the leading number marker stripped, and at most the first 10:
\* eleven numbered lines and twelve plain lines give the first ten, shorter
\* replies give all their lines, and no reply gives more than 10 questions.
C12_QuestionsOfReply ==
    (last.op = "startInterview" /\ last.pc = "generateQuestions"
        /\ last.response # Rejected)
    => /\ Len(questions) <= 10
       /\ last.response = ElevenNumberedLines
             => questions = OneCharTexts(<<"a","b","c","d","e","f","g","h","i","j">>)
       /\ last.response = TwelvePlainLines
             => questions = OneCharTexts(<<"l","m","n","o","p","q","r","s","t","u">>)
       /\ last.response = Content(<<"1","."," ","p","\n","2","."," ","q">>)
             => questions = OneCharTexts(<<"p","q">>)
       /\ last.response = Content(<<"u","\n"," ","\n">>)
             => questions = OneCharTexts(<<"u">>)
       /\ last.response = Content(<<"3",".","x","\n","1","2",".","\n"," ","y"," ">>)
             => questions = << <<"x">>, <<>>, <<"y">> >>
       /\ last.response = NoContent => questions = <<>>

\* C12 witness: the reply of eleven numbered lines has been read, ten
\* questions are kept and the first is shown
C12_Witness ==
    /\ last = Last("startInterview", "generateQuestions", ElevenNumberedLines)
    /\ Len(questions) = 10
    /\ questions[10] = <<"j">>
    /\ currentQuestion = <<"a">>

\* C13: when the question generation of a start or of a retake has returned
\* and yielded no question, currentQuestion is empty.
C13_NoQuestionToShow ==
    (last.op = "startInterview" /\ last.pc = "generateQuestions"
        /\ last.response # Rejected /\ questions = <<>>)
    => currentQuestion = <<>>

\* C14: a scoring reply "Score: <n>/10. Feedback: <text>" is recorded with
\* score n and feedback <text>: "Score: 7/10. Feedback: Good job." gives the
\* score 7 and the feedback "Good job.".
C14_ScoreAndFeedback ==
    (last.op = "handleAnswerSubmit" /\ last.pc = "score"
        /\ last.response = GoodJobReply)
    => /\ history[Len(history)].score = 7
       /\ history[Len(history)].feedback =
             <<"G","o","o","d"," ","j","o","b",".">>

\* C15: a scoring reply without "Score: <integer>/10", the empty and the
\* missing reply among them, is recorded with score 5 and with the whole
\* reply text, trimmed, as feedback.
C15_DefaultScore ==
    (last.op = "handleAnswerSubmit" /\ last.pc = "score"
        /\ last.response \in {NoContent, Content(<<>>),
                              Content(<<" ","f","i","n","e"," ","\n">>)})
    => /\ history[Len(history)].score = 5
       /\ history[Len(history)].feedback =
             (IF last.response = Content(<<" ","f","i","n","e"," ","\n">>)
              THEN <<"f","i","n","e">> ELSE <<>>)

\* C16: every record of history has a score in 1..10, whatever the scoring
\* reply was, and totalScore is at most 10 times the number of records.
C16_ScoreInRange ==
    /\ \A i \in 1..Len(history) : history[i].score \in 1..10
    /\ totalScore <= 10 * Len(history)

\* C17: an analysis reply that is no parseable JSON makes analyzeResults
\* store the fully-defaulted ResultAnalysis, the object it stores when every
\* field of a parsed reply fails validation.
C17_MalformedGivesDefault ==
    (last.op = "handleAnswerSubmit" /\ last.pc = "analyzeResults"
        /\ last.response = Malformed)
    => /\ resultAnalysis = defaultAnalysis
       /\ resultAnalysis =
             analysisFrom[Parses(JObj(JUndefined, JUndefined, JUndefined, JUndefined))]

\* the list fields of a ResultAnalysis
ListFields == {"strengths", "weaknesses", "improvementSuggestions"}

C19_AnalysisWellFormed ==
    resultAnalysis # NoAnalysis => ValidAnalysis(resultAnalysis)

\* C19 witness: the reply held a number as overallPerformance, reading it
\* threw and the catch has stored its value
C19_Witness ==
    /\ last.op = "handleAnswerSubmit" /\ last.pc = "analyzeResults"
    /\ last.response.status = "content" /\ last.response.parses
    /\ last.response.json.t = "object"
    /\ last.response.json.v.overallPerformance = JNum(5)
    /\ resultAnalysis = failedAnalysis

\* C20: right after Retake Interview or Upload New Resume the data of the
\* finished session is gone: history is empty, totalScore and
\* currentQuestionIndex are 0, there are no questions and no current
\* question, and resultAnalysis is null.
C20_SessionDataDiscarded ==
    (last.pc = "start" /\ last.op \in {"retake", "uploadNewResume"})
    => /\ history = <<>>
       /\ totalScore = 0
       /\ currentQuestionIndex = 0
       /\ questions = <<>>
       /\ currentQuestion = <<>>
       /\ resultAnalysis = NoAnalysis

\* the step taken last consumed the reply of op's call
Replied(op) == last.op = op /\ last.pc = "reply"

\* C21: once the call of a question generation has returned, with a question
\* or with a failure, the work on the previous question is reset: code is
\* empty, analysis is the initial "Not analyzed yet" value and the list of
\* test results is empty.
C21_WorkReset ==
    Replied("generateQuestion")
        => /\ code = <<>>
           /\ analysis = initialAnalysis
           /\ testResults = <<>>

\* a test case as generated: an input and an expected output, and neither
\* an actual output nor a verdict
PlainCase(c) ==
    /\ c.t = "object"
    /\ c.v.input.t = "string"
    /\ c.v.expectedOutput.t = "string"
    /\ c.v.actualOutput = JUndefined
    /\ c.v.passed = JUndefined

\* C22: after every successful question generation testCases holds exactly
\* 3 test cases, each with an input and an expected output and without
\* actual output and verdict, whatever the oracle replied.
C22_ThreeTestCases ==
    (Replied("generateQuestion") /\ ~generationThrows(last.response))
        => /\ Len(testCases) = 3
           /\ \A i \in 1..Len(testCases) : PlainCase(testCases[i])

\* the step taken consumed the reply of a generation call, with a question
\* or with a failure
GenerationSucceeds ==
    /\ last'.op = "generateQuestion"
    /\ last'.pc = "reply"
    /\ ~generationThrows(last'.response)

GenerationFails ==
    /\ last'.op = "generateQuestion"
    /\ last'.pc = "reply"
    /\ generationThrows(last'.response)

\* the step taken started a generation
GenerationStarts ==
    /\ last'.op = "generateQuestion"
    /\ last'.pc # "reply"

\* C23: the stopwatch's time is a non-negative integer and isRunning is
\* false while a question is loading; time changes only by a tick of +1
\* while isRunning or by the reset to 0 of a generation that starts;
\* isRunning becomes true only when a generation succeeds; after a failed
\* generation isRunning is false and time is 0.
C23_Stopwatch ==
    /\ [](time \in Nat /\ (questionLoading => ~isRunning))
    /\ [][/\ time' # time =>
                \/ isRunning /\ time' = time + 1 /\ last'.op = "stopwatch"
                \/ GenerationStarts /\ time' = 0
          /\ (~isRunning /\ isRunning') => GenerationSucceeds
          /\ GenerationFails => (~isRunning' /\ time' = 0)]_vars

\* a generation that followed the first one (code had been typed) failed
\* and left the stopwatch stopped at 0
C23_Witness ==
    /\ Replied("generateQuestion")
    /\ generationThrows(last.response)
    /\ code # <<>>
    /\ time = 0
    /\ ~isRunning

\* a label of the reply, or the default where the reply has none: the field
\* is missing, null or empty
Given(v) == IF v.t = "string" /\ v.v # <<>> THEN v.v ELSE CouldNotDetermine

\* C24: when the call of an analyze action returns or fails, loading is
\* false and analysis is replaced: by the validated reply, whose
\* timeComplexity and spaceComplexity are "Could not determine" where the
\* reply has none, or by the failure value with both labels "Analysis
\* failed"; it is never left at "Analyzing...".
C24_AnalysisReplaced ==
    Replied("analyzeCode") =>
        LET r == last.response
            answered == r.status = "content" /\ r.parses /\ r.json.t = "object"
        IN  /\ ~loading
            /\ analysis.timeComplexity # Analyzing
            /\ analysis.spaceComplexity # Analyzing
            /\ IF answered
               THEN analysis =
                        [timeComplexity  |-> Given(r.json.v.timeComplexity),
                         spaceComplexity |-> Given(r.json.v.spaceComplexity),
                         suggestion      |-> r.json.v.suggestion,
                         correctedCode   |-> r.json.v.correctedCode]
               ELSE /\ analysis.timeComplexity = AnalysisFailed
                    /\ analysis.spaceComplexity = AnalysisFailed

\* a reply without labels has been validated
C24_Witness ==
    /\ Replied("analyzeCode")
    /\ last.response.status = "content"
    /\ analysis.timeComplexity = CouldNotDetermine
    /\ analysis.spaceComplexity = CouldNotDetermine

\* C25: a stopwatch that analyze or run tests has stopped does not resume:
\* from a state where isRunning is false, every step that is no step of a
\* question generation, the arrival of the reply of the analysis or of the
\* test run included, leaves isRunning false and time unchanged.
C25_StaysStopped ==
    [][(~isRunning /\ last'.op # "generateQuestion")
            => (~isRunning' /\ time' = time)]_vars

\* the reply of an analysis arrived with the stopwatch stopped at an elapsed
\* time
C25_Witness ==
    /\ Replied("analyzeCode")
    /\ time > 0
    /\ ~isRunning
    /\ ~questionLoading

\* C26: run tests and analyze invoked on code that is empty or whitespace
\* issue no call of the oracle; run tests changes no state of the component
\* and analyze leaves the stopwatch and the loading flag as they are.
C26_NoCodeNoCall ==
    [][/\ (last'.op = "runTestCases" /\ last'.pc # "reply" /\ Blank(code))
            => UNCHANGED <<challengeVars, tasks>>
       /\ (last'.op = "analyzeCode" /\ last'.pc # "reply" /\ Blank(code))
            => UNCHANGED <<stopwatchVars, loading, tasks>>]_vars

\* run tests was invoked on whitespace while the stopwatch was running
C26_Witness ==
    /\ last.op = "runTestCases"
    /\ last.pc # "reply"
    /\ Blank(code)
    /\ code # <<>>
    /\ isRunning
    /\ activeTab = "testcases"

\* C27: every request carries its context verbatim and whole: the
\* verification request in flight carries the whole text extracted from the
\* file.
C27_WholeTextSent ==
    \A t \in TasksAt("handleFileUpload", "verify") : t.sent = t.extractedText

\* C28: history never holds more records than there are questions, in every
\* reachable state, submissions that overlap a call in flight included.
C28_HistoryWithinQuestions == Len(history) <= Len(questions)

\* C29: where every read of a file, every extraction and every call of the
\* oracle eventually returns or fails, every upload eventually settles:
\* isProcessing becomes false and isResumeValid true or false.
C29_UploadSettles ==
    isProcessing ~> (~isProcessing /\ isResumeValid \in {"true", "false"})

\* C30: in every reachable state totalScore is the sum of the scores of the
\* records of history, whatever the interleaving of overlapping
\* submissions, scoring replies, retake and upload of a new resume.
C30_TotalIsSum == totalScore = SumScores(history)

\* two scored answers are recorded, one of them submitted while a call of
\* the session was in flight
C30_Witness ==
    /\ Len(history) = 2
    /\ totalScore > 0
    /\ SessionTasks # {}

\* C31: whenever the interview is in progress and the question list is not
\* empty, the question displayed is the one of the list at
\* currentQuestionIndex.
C31_QuestionShownIsCurrent ==
    (interviewing /\ Len(questions) > 0)
        => /\ currentQuestionIndex < Len(questions)
           /\ currentQuestion = questions[currentQuestionIndex + 1]

\* C32: when uploads overlap, the one that resolves last determines the
\* final state as a whole: the step that ends the last upload in flight by
\* storing the skills extracted for its document leaves that document in
\* resumeText.
C32_LastUploadWins ==
    [][\A t \in TasksAt("handleFileUpload", "extractSkills") :
            (/\ tasks' = Finish(t)
             /\ UploadTasks' = {}
             /\ last'.response # Rejected)
                => (isResumeValid' = "true" /\ resumeText' = t.extractedText)]_vars

\* C33: a reply of an analysis or of a test run that arrives after a new
\* question has been generated changes neither the analysis nor the test
\* results of the new question.  Such a reply is one that arrives while the
\* stopwatch runs: its call stopped the stopwatch when it was issued, and
\* only a generation that succeeded since has started it again.
C33_StaleReplyIgnored ==
    [][(/\ isRunning
        /\ last'.pc = "reply"
        /\ last'.op \in {"analyzeCode", "runTestCases"})
            => (analysis' = analysis /\ testResults' = testResults)]_vars

\* the calls of op that are in flight
CallsOf(op) == {t \in BagToSet(tasks) : t.op = op}

\* how many calls of op are in flight: the calls of CodeEditor capture
\* nothing that their continuations read, so they differ in op and pc only
CountOf(op) == CopiesIn([op |-> op, pc |-> ChallengeCall[op]], tasks)

\* C34: at most one generation call, one analysis call and one test-run
\* call are in flight at any time, each flag being set while its call is,
\* and no analysis and no test run is started while a question is loading.
C34_OneCallEach ==
    /\ [](/\ CountOf("generateQuestion") <= 1
          /\ CountOf("analyzeCode") <= 1
          /\ CountOf("runTestCases") <= 1
          /\ (CallsOf("generateQuestion") # {} => questionLoading)
          /\ (CallsOf("analyzeCode") # {} => loading)
          /\ (CallsOf("runTestCases") # {} => runningTests))
    /\ [][questionLoading =>
            ~(/\ last'.op \in {"analyzeCode", "runTestCases"}
              /\ last'.pc # "reply")]_vars

\* the three calls are in flight together
C34_Witness ==
    /\ CallsOf("generateQuestion") # {}
    /\ CallsOf("analyzeCode") # {}
    /\ CallsOf("runTestCases") # {}

\* C35: a session is never completed with an empty question list: where
\* interviewCompleted is true, questions holds at least one question.
C35_CompletedHasQuestions == interviewCompleted => Len(questions) >= 1

====
